---- MODULE Spec2Model ----
(***************************************************************************)
(* Room/session state machine of the chat relay server (src/index.js; the  *)
(* join, relay and disconnect handlers of src/unnamed/part_000 are the     *)
(* same code).                                                             *)
(*                                                                         *)
(* JavaScript values are records [type, chars]: a string is its sequence   *)
(* of one-character strings, every other value has chars = <<>>.  Keys of  *)
(* the registry and usernames of member records are always strings in the  *)
(* code, so they are kept as bare character sequences.                     *)
(*                                                                         *)
(* One action is one run-to-completion event handler of one socket.  The   *)
(* transport (socket.io) is modelled by what the handlers use of it:       *)
(* socket.join / socket.leave, io.to(room).emit, socket.emit, the implicit *)
(* removal of the socket before its "disconnect" listeners run, and the    *)
(* connection state recovery that the server switches on.                  *)
(***************************************************************************)
EXTENDS Integers, Sequences, FiniteSets, TLC

\* ------------------------------------------------------------ constants
MAX_USERS_PER_ROOM == 40
UsernameMaxLength == 20

\* ------------------------------------------------------------ bounds
\* Sessions that connect, join, relay, disconnect and recover freely.
NumActive == 2
\* Sessions that only connect and join the first room, one after the other,
\* each under its own username, and stay: they bring a room up to capacity.
NumFillers == 39
\* AI requests whose callback is registered at one time.
MaxPending == 1

Active == 1 .. NumActive
Fillers == (NumActive + 1) .. (NumActive + NumFillers)
Sessions == Active \cup Fillers

\* ------------------------------------------------------------ JS values
Str(chars) == [type |-> "string", chars |-> chars]
Undefined == [type |-> "undefined", chars |-> <<>>]
NotAString == [type |-> "number", chars |-> <<>>]

\* typeof v === "string"
IsString(v) == v.type = "string"

\* JavaScript truthiness of the values used here (undefined, numbers standing
\* for "not a string", strings): only a non-empty string is truthy.
Truthy(v) == IsString(v) /\ v.chars # <<>>

IsWhitespace(c) == c \in {" ", "\t", "\n"}

RECURSIVE TrimStart(_)
TrimStart(cs) ==
  IF cs # <<>> /\ IsWhitespace(Head(cs)) THEN TrimStart(Tail(cs)) ELSE cs

RECURSIVE TrimEnd(_)
TrimEnd(cs) ==
  IF cs # <<>> /\ IsWhitespace(cs[Len(cs)])
  THEN TrimEnd(SubSeq(cs, 1, Len(cs) - 1))
  ELSE cs

\* String.prototype.trim
Trim(cs) == TrimEnd(TrimStart(cs))

\* String.prototype.substring(0, n)
Substring0(cs, n) == IF Len(cs) <= n THEN cs ELSE SubSeq(cs, 1, n)

\* The room id cleaned without the trim.
CleanRoom_NoTrim(roomId) == IF IsString(roomId) THEN roomId.chars ELSE <<>>

\* const cleanRoom = typeof roomId === "string" ? roomId.trim() : "";
CleanRoom(roomId) == IF IsString(roomId) THEN Trim(roomId.chars) ELSE <<>>

\* The username cleaned in the other order: truncated, then trimmed.
CleanUsername_TruncateFirst(username) ==
  IF IsString(username)
  THEN Trim(Substring0(username.chars, UsernameMaxLength))
  ELSE <<>>

\* const cleanUsername = typeof username === "string"
\*   ? username.trim().substring(0, 20) : "";
CleanUsername(username) ==
  IF IsString(username)
  THEN Substring0(Trim(username.chars), UsernameMaxLength)
  ELSE <<>>

\* ------------------------------------------------------------ inputs
RECURSIVE Repeat(_, _)
Repeat(c, n) == IF n = 0 THEN <<>> ELSE Append(Repeat(c, n - 1), c)

Lobby == <<"l", "o", "b", "b", "y">>
Den == <<"d", "e", "n">>
Bob == <<"b", "o", "b">>

\* Room ids a client sends: " lobby ", "den", " " (empty once trimmed), and a
\* value that is not a string.
RoomInputs ==
  { Str(<<" ">> \o Lobby \o <<" ">>), Str(Den), Str(<<" ">>), NotAString }

\* Usernames a client sends: "  bob ", a name one character longer than the
\* limit (so that it is truncated), "" and a value that is not a string.
UsernameInputs ==
  { Str(<<" ", " ">> \o Bob \o <<" ">>),
    Str(<<" ">> \o Repeat("x", UsernameMaxLength) \o <<"y">>),
    Str(<<>>),
    NotAString }

\* Chat contents a client sends: "hi ", " " and a value that is not a string.
ContentInputs == { Str(<<"h", "i", " ">>), Str(<<" ">>), NotAString }

Digits == <<"0", "1", "2", "3", "4", "5", "6", "7", "8", "9">>

\* The username filler session f sends: "f" and the two digits of f.
FillerUsername(f) ==
  Str(<<"f", Digits[((f \div 10) % 10) + 1], Digits[(f % 10) + 1]>>)

\* The room the filler sessions join.
FillerRoom == Str(Lobby)

\* ------------------------------------------------------------ state
VARIABLES
  rooms,      \* const rooms = new Map(): room id -> [users, usernames]
  sockets,    \* the live sockets: session -> [data, rooms], socket.data being
              \* [roomId, username] and socket.rooms the transport rooms joined
  persisted,  \* the sessions the transport keeps for connection state recovery
  emitted,    \* the events sent by the handler that ran last, in order
  last,       \* the event handled last: [op, sid, args, data], data being
              \* the socket's data when the handler started
  prev,       \* the registry as it was when that handler started
  pending     \* the AI requests whose acknowledgement callback is registered:
              \* request number -> [sid, roomId, historyParams, timer, attached]

vars == <<rooms, sockets, persisted, emitted, last, prev, pending>>

EmptyData == [roomId |-> Undefined, username |-> Undefined]

\* new Map()
EmptyMap == [k \in {} |-> {}]

\* Map.prototype.delete
MapDelete(m, k) == [x \in DOMAIN m \ {k} |-> m[x]]

\* Map.prototype.set
MapSet(m, k, v) == [x \in DOMAIN m \cup {k} |-> IF x = k THEN v ELSE m[x]]

\* socket.emit(ev, arg): to the socket itself only.
ToSocket(s, ev, arg) ==
  [via |-> "socket", room |-> <<>>, to |-> {s}, ev |-> ev, arg |-> arg]

\* io.to(r).emit(ev, arg): to the live sockets that are in transport room r,
\* socks being the live sockets at that moment.
ToRoom(socks, r, ev, arg) ==
  [via |-> "room", room |-> r,
   to |-> {t \in DOMAIN socks : r \in socks[t].rooms},
   ev |-> ev, arg |-> arg]

\* The event that handler op of socket s is about to handle.
Event(op, s, args) ==
  [op |-> op, sid |-> s, args |-> args, data |-> sockets[s].data]

Init ==
  /\ rooms = EmptyMap
  /\ sockets = EmptyMap
  /\ persisted = EmptyMap
  /\ emitted = <<>>
  /\ last = [op |-> "init", sid |-> 0, args |-> <<>>, data |-> EmptyData]
  /\ prev = EmptyMap
  /\ pending = EmptyMap

\* ------------------------------------------------------------ connection
\* The pending requests once client s has a socket with a new id: the socket
\* that the callbacks of its earlier requests hold reaches nobody any more.
Detached(reqs, s) ==
  [q \in DOMAIN reqs |->
     IF reqs[q].sid = s THEN [reqs[q] EXCEPT !.attached = FALSE] ELSE reqs[q]]

\* io.on("connection") for a new client: a socket with empty data that is in
\* no transport room (but its own); whatever the transport kept of an earlier
\* connection of this client is forgotten.
Connect(s) ==
  /\ s \notin DOMAIN sockets
  /\ sockets' = MapSet(sockets, s, [data |-> EmptyData, rooms |-> {}])
  /\ persisted' = MapDelete(persisted, s)
  /\ pending' = Detached(pending, s)
  /\ emitted' = <<>>
  /\ last' = [op |-> "connection", sid |-> s, args |-> <<>>,
              data |-> EmptyData]
  /\ prev' = rooms
  /\ UNCHANGED rooms

\* io.on("connection") for a client that reconnects within
\* maxDisconnectionDuration: connectionStateRecovery gives the new socket the
\* id, the data and the transport rooms of the one that was disconnected.
Recover(s) ==
  /\ s \notin DOMAIN sockets
  /\ s \in DOMAIN persisted
  /\ sockets' = MapSet(sockets, s, persisted[s])
  /\ persisted' = MapDelete(persisted, s)
  /\ emitted' = <<>>
  /\ last' = [op |-> "recovery", sid |-> s, args |-> <<>>,
              data |-> persisted[s].data]
  /\ prev' = rooms
  /\ UNCHANGED <<rooms, pending>>

\* ------------------------------------------------------------ join room
\* room = { users: new Map(), usernames: new Set() }
NewRoom == [users |-> EmptyMap, usernames |-> {}]

\* Set.prototype.delete(v) on a set of strings, v being any value.
SetDelete(set, v) == IF IsString(v) THEN set \ {v.chars} ELSE set

\* The emptiness test off by one: the size as it was before the delete.
NoUsersLeft_OffByOne(room) == Cardinality(DOMAIN room.users) = 1

\* if (prevRoom.users.size === 0), if (room.users.size === 0)
NoUsersLeft(room) == Cardinality(DOMAIN room.users) = 0

\* The capacity test off by one: > for >=.
RoomIsFull_OffByOne(room) == Cardinality(DOMAIN room.users) > MAX_USERS_PER_ROOM

\* if (room.users.size >= MAX_USERS_PER_ROOM)
RoomIsFull(room) == Cardinality(DOMAIN room.users) >= MAX_USERS_PER_ROOM

\* if (room.usernames.has(cleanUsername))
UsernameIsTaken(room, cleanUsername) == cleanUsername \in room.usernames

\* The three broadcasts to the members that remain in room r after a leave.
LeftBroadcasts(socks, r, room, username) ==
  << ToRoom(socks, r, "user count", Cardinality(DOMAIN room.users)),
     ToRoom(socks, r, "user left", username),
     ToRoom(socks, r, "room users", room.usernames) >>

\* socket.join(r) and socket.leave(r)
SocketJoin(socks, s, r) == [socks EXCEPT ![s].rooms = @ \cup {r}]
SocketLeave(socks, s, r) == [socks EXCEPT ![s].rooms = @ \ {r}]

\* The join-room handler without its leave step.
LeavePrevious_Skipped(s) == [rooms |-> rooms, sockets |-> sockets, out |-> <<>>]

\* if (socket.data.roomId) { ... }: the registry, the sockets and the events
\* sent once the socket has been taken out of the room it recorded.
LeavePrevious(s) ==
  LET prevRoomId == sockets[s].data.roomId.chars
      username == sockets[s].data.username
      unchanged == [rooms |-> rooms, sockets |-> sockets, out |-> <<>>]
  IN IF ~Truthy(sockets[s].data.roomId) THEN unchanged
     ELSE IF prevRoomId \notin DOMAIN rooms THEN unchanged
     ELSE
       LET prevRoom ==
             [users |-> MapDelete(rooms[prevRoomId].users, s),
              usernames |-> SetDelete(rooms[prevRoomId].usernames, username)]
       IN [rooms |-> IF NoUsersLeft(prevRoom)
                     THEN MapDelete(rooms, prevRoomId)
                     ELSE MapSet(rooms, prevRoomId, prevRoom),
           \* the broadcasts are sent before socket.leave(prevRoomId)
           out |-> IF NoUsersLeft(prevRoom)
                   THEN <<>>
                   ELSE LeftBroadcasts(sockets, prevRoomId, prevRoom, username),
           sockets |-> SocketLeave(sockets, s, prevRoomId)]

\* The admission without room.usernames.add(cleanUsername).
Admit_ForgetsUsername(room, s, cleanUsername) ==
  [users |-> MapSet(room.users, s, [id |-> s, username |-> cleanUsername]),
   usernames |-> room.usernames]

\* room.users.set(socket.id, {...}); room.usernames.add(cleanUsername)
Admit(room, s, cleanUsername) ==
  [users |-> MapSet(room.users, s, [id |-> s, username |-> cleanUsername]),
   usernames |-> room.usernames \cup {cleanUsername}]

\* socket.on("join room", ({ username, roomId }) => { ... })
JoinRoom(s, username, roomId) ==
  LET cleanRoom == CleanRoom(roomId)
      cleanUsername == CleanUsername(username)
      left == LeavePrevious(s)
      \* let room = rooms.get(cleanRoom); if (!room) { ...; rooms.set(...) }
      found == IF cleanRoom \in DOMAIN left.rooms
               THEN left.rooms
               ELSE MapSet(left.rooms, cleanRoom, NewRoom)
      room == found[cleanRoom]
      admitted == Admit(room, s, cleanUsername)
      joined == [SocketJoin(left.sockets, s, cleanRoom) EXCEPT ![s].data =
                   [roomId |-> Str(cleanRoom), username |-> Str(cleanUsername)]]
  IN /\ s \in DOMAIN sockets
     /\ last' = Event("join room", s, <<username, roomId>>)
     /\ prev' = rooms
     /\ UNCHANGED <<persisted, pending>>
     /\ IF cleanRoom = <<>> THEN
          /\ emitted' = <<ToSocket(s, "room error", "Invalid room ID")>>
          /\ UNCHANGED <<rooms, sockets>>
        ELSE IF cleanUsername = <<>> THEN
          /\ emitted' = <<ToSocket(s, "username error", "Invalid username")>>
          /\ UNCHANGED <<rooms, sockets>>
        ELSE IF RoomIsFull(room) THEN
          /\ rooms' = found
          /\ sockets' = left.sockets
          /\ emitted' = left.out \o <<ToSocket(s, "room full", Undefined)>>
        ELSE IF UsernameIsTaken(room, cleanUsername) THEN
          /\ rooms' = found
          /\ sockets' = left.sockets
          /\ emitted' = left.out \o
               <<ToSocket(s, "username error",
                          "Username is taken in this room")>>
        ELSE
          /\ rooms' = MapSet(found, cleanRoom, admitted)
          /\ sockets' = joined
          /\ emitted' = left.out \o
               << ToSocket(s, "username set", Str(cleanUsername)),
                  ToSocket(s, "room set", Str(cleanRoom)),
                  ToRoom(joined, cleanRoom, "user count",
                         Cardinality(DOMAIN admitted.users)),
                  ToRoom(joined, cleanRoom, "user joined", Str(cleanUsername)),
                  ToRoom(joined, cleanRoom, "room users",
                         admitted.usernames) >>

\* ------------------------------------------------------------ disconnect
\* socket.on("disconnect", () => { ... }).  Before the listener runs the
\* transport has kept the socket's data and transport rooms when the
\* disconnection is one it lets the client recover from (a lost connection,
\* not one the client closed), and has taken the socket out of every transport
\* room.  The socket object is gone afterwards.
Disconnect(s, recoverable) ==
  LET gone == MapDelete(sockets, s)
      roomId == sockets[s].data.roomId
      username == sockets[s].data.username
      room == [users |-> MapDelete(rooms[roomId.chars].users, s),
               usernames |-> SetDelete(rooms[roomId.chars].usernames, username)]
  IN /\ s \in DOMAIN sockets
     /\ sockets' = gone
     /\ persisted' = IF recoverable
                     THEN MapSet(persisted, s, sockets[s])
                     ELSE persisted
     /\ last' = Event("disconnect", s, <<>>)
     /\ prev' = rooms
     /\ UNCHANGED pending
     /\ IF ~Truthy(roomId) THEN
          /\ emitted' = <<>>
          /\ UNCHANGED rooms
        ELSE IF roomId.chars \notin DOMAIN rooms THEN
          /\ emitted' = <<>>
          /\ UNCHANGED rooms
        ELSE IF NoUsersLeft(room) THEN
          /\ rooms' = MapDelete(rooms, roomId.chars)
          /\ emitted' = <<>>
        ELSE
          /\ rooms' = MapSet(rooms, roomId.chars, room)
          /\ emitted' = LeftBroadcasts(gone, roomId.chars, room, username)

\* ------------------------------------------------------------ relay events
Relayed(s, op, args, out) ==
  /\ s \in DOMAIN sockets
  /\ emitted' = out
  /\ last' = Event(op, s, args)
  /\ prev' = rooms
  /\ UNCHANGED <<rooms, sockets, persisted, pending>>

\* socket.on("typing", () => { ... })
Typing(s) ==
  LET roomId == sockets[s].data.roomId
      username == sockets[s].data.username
  IN Relayed(s, "typing", <<>>,
             IF Truthy(roomId) /\ Truthy(username)
             THEN <<ToRoom(sockets, roomId.chars, "typing", username)>>
             ELSE <<>>)

\* socket.on("stop typing", () => { ... })
StopTyping(s) ==
  LET roomId == sockets[s].data.roomId
      username == sockets[s].data.username
  IN Relayed(s, "stop typing", <<>>,
             IF Truthy(roomId) /\ Truthy(username)
             THEN <<ToRoom(sockets, roomId.chars, "stop typing", username)>>
             ELSE <<>>)

\* The payload of a chat message; its id (socket id and Date.now()) is left
\* out, no handler reads it.
ChatPayload(s, user, content) ==
  [content |-> Str(Trim(content.chars)), senderId |-> s,
   username |-> Str(user.username)]

\* socket.on("chat message", (content) => { ... })
ChatMessage(s, content) ==
  LET roomId == sockets[s].data.roomId
      room == rooms[roomId.chars]
      user == room.users[s]
  IN Relayed(s, "chat message", <<content>>,
             IF ~IsString(content) THEN <<>>
             ELSE IF Trim(content.chars) = <<>> THEN <<>>
             ELSE IF ~Truthy(roomId) THEN <<>>
             ELSE IF roomId.chars \notin DOMAIN rooms THEN <<>>
             ELSE IF s \notin DOMAIN room.users THEN <<>>
             ELSE <<ToRoom(sockets, roomId.chars, "chat message",
                           ChatPayload(s, user, content))>>)

\* socket.on("edit message", ({ messageId, newContent }) => { ... })
EditMessage(s, edit) ==
  LET roomId == sockets[s].data.roomId
  IN Relayed(s, "edit message", <<edit>>,
             IF Truthy(roomId)
             THEN <<ToRoom(sockets, roomId.chars, "message edited", edit)>>
             ELSE <<>>)

\* socket.on("delete message", ({ messageId }) => { ... })
DeleteMessage(s, del) ==
  LET roomId == sockets[s].data.roomId
  IN Relayed(s, "delete message", <<del>>,
             IF Truthy(roomId)
             THEN <<ToRoom(sockets, roomId.chars, "message deleted", del)>>
             ELSE <<>>)

\* The payloads of the edit and delete events of a client.
EditInputs == { [messageId |-> "m1", newContent |-> Str(<<"o", "k">>)] }
DeleteInputs == { [messageId |-> "m1"] }

\* ------------------------------------------------------------ AI request
\* The name of the synthetic sender.
AI == Str(<<"A", "I">>)

\* What a client sends as messages: an array of entries, an entry being an
\* object { username, content } or null, or a value that is not an array.
Message(username, content) ==
  [type |-> "object", username |-> username, content |-> content]
NullMessage == [type |-> "null", username |-> Undefined, content |-> Undefined]
Array(entries) == [type |-> "array", entries |-> entries]
NotAnArray == [type |-> "undefined", entries |-> <<>>]

HistoryWindow == 10

\* messages.slice(-10)
LastMessages(entries) ==
  IF Len(entries) <= HistoryWindow
  THEN entries
  ELSE SubSeq(entries, Len(entries) - HistoryWindow + 1, Len(entries))

\* messages.slice(-10).map(...) throws: messages has no slice or map, or an
\* entry of the window is null.
PreparationThrows(messages) ==
  \/ messages.type # "array"
  \/ \E i \in 1 .. Len(LastMessages(messages.entries)) :
       LastMessages(messages.entries)[i].type = "null"

\* `${prefix}${msg.content}`, the prefix being "(AI)" or `(${msg.username})`
HistoryEntry(msg) ==
  <<"(">> \o msg.username.chars \o <<")">> \o msg.content.chars

\* const historyParams = messages.slice(-10).map(...)
HistoryParams(messages) ==
  [i \in 1 .. Len(LastMessages(messages.entries)) |->
     HistoryEntry(LastMessages(messages.entries)[i])]

\* What the responder acknowledges with: { reply: "..." }, or a response
\* without a reply.
Reply(chars) == [reply |-> Str(chars)]
NoReply == [reply |-> Undefined]

\* if (response && response.reply)
HasReply(response) == Truthy(response.reply)

\* socket.emit(ev, arg) in a callback of request req: the socket is the one
\* that sent the request; it reaches its client while the client is connected
\* under that socket's id.
ToRequester(socks, req, ev, arg) ==
  [via |-> "socket", room |-> <<>>,
   to |-> IF req.attached /\ req.sid \in DOMAIN socks THEN {req.sid} ELSE {},
   ev |-> ev, arg |-> arg]

\* The payload of the reply; its id (Date.now()) is left out.
AIPayload(response) ==
  [content |-> response.reply, senderId |-> AI, username |-> AI]

\* The request numbers that are free.
FreeRequests == (1 .. MaxPending) \ DOMAIN pending

\* The event handled by a callback of request q.
RequestEvent(op, q, args) ==
  [op |-> op, sid |-> pending[q].sid, args |-> args,
   data |-> IF pending[q].attached /\ pending[q].sid \in DOMAIN sockets
            THEN sockets[pending[q].sid].data
            ELSE EmptyData]

\* socket.on("AI request", async (messages) => { ... }), up to the return of
\* hfSocket.emit.
AIRequest(s, messages) ==
  LET roomId == sockets[s].data.roomId
      q == CHOOSE n \in FreeRequests : \A m \in FreeRequests : n <= m
      typing == ToRoom(sockets, roomId.chars, "typing", AI)
  IN /\ s \in DOMAIN sockets
     /\ (Truthy(roomId) /\ ~PreparationThrows(messages)) => FreeRequests # {}
     /\ last' = Event("AI request", s, <<messages>>)
     /\ prev' = rooms
     /\ UNCHANGED <<rooms, sockets, persisted>>
     /\ IF ~Truthy(roomId) THEN
          /\ emitted' = <<>>
          /\ UNCHANGED pending
        ELSE IF PreparationThrows(messages) THEN
          \* catch (err) { ... }
          /\ emitted' =
               << typing,
                  ToSocket(s, "AI_error", "AI processing error"),
                  ToRoom(sockets, roomId.chars, "stop typing", AI) >>
          /\ UNCHANGED pending
        ELSE
          /\ emitted' = <<typing>>
          /\ pending' = MapSet(pending, q,
               [sid |-> s, roomId |-> roomId.chars,
                historyParams |-> HistoryParams(messages),
                timer |-> "armed", attached |-> TRUE])

\* setTimeout(() => { ... }, 40000): the timer of request q fires.  The
\* acknowledgement callback stays registered.
AITimeout(q) ==
  /\ q \in DOMAIN pending
  /\ pending[q].timer = "armed"
  /\ emitted' =
       << ToRequester(sockets, pending[q], "AI_error", "AI response timed out"),
          ToRoom(sockets, pending[q].roomId, "stop typing", AI) >>
  /\ pending' = [pending EXCEPT ![q].timer = "fired"]
  /\ last' = RequestEvent("AI timeout", q, <<q>>)
  /\ prev' = rooms
  /\ UNCHANGED <<rooms, sockets, persisted>>

\* hfSocket.emit("AI_request", { historyParams }, (response) => { ... }): the
\* responder acknowledges request q.  clearTimeout(timeout) stops a timer that
\* has not fired and does nothing to one that has.
AIResponse(q, response) ==
  /\ q \in DOMAIN pending
  /\ emitted' =
       << IF HasReply(response)
          THEN ToRoom(sockets, pending[q].roomId, "chat message",
                      AIPayload(response))
          ELSE ToRequester(sockets, pending[q], "AI_error",
                           "Invalid AI response"),
          ToRoom(sockets, pending[q].roomId, "stop typing", AI) >>
  /\ pending' = MapDelete(pending, q)
  /\ last' = RequestEvent("AI response", q, <<q, response>>)
  /\ prev' = rooms
  /\ UNCHANGED <<rooms, sockets, persisted>>

\* The messages of an AI request, and the acknowledgements of the responder.
MessagesInputs ==
  { Array(<<Message(Str(Bob), Str(<<"h", "i">>))>>),
    Array(<<NullMessage>>),
    NotAnArray }
ResponseInputs == { Reply(<<"y", "o">>), NoReply }

\* ------------------------------------------------------------ environment
\* The filler sessions connect and join in the order of their ids: the one
\* whose turn it is, or a number past them when all have joined.
NextFiller ==
  NumActive + 1 +
  Cardinality({f \in Fillers \cap DOMAIN sockets :
                 Truthy(sockets[f].data.roomId)})

\* The first filler session connects while no other session is connected; once
\* it has, the filler sessions go on until all have joined.
FillerTurn ==
  /\ NextFiller \in Fillers
  /\ \/ NextFiller \in DOMAIN sockets
     \/ NextFiller - 1 \in Fillers
     \/ DOMAIN sockets = {}

\* The other sessions act while no filler session is there or all have joined.
ActiveTurn ==
  \/ NextFiller \notin Fillers
  \/ NextFiller - 1 \notin Fillers /\ NextFiller \notin DOMAIN sockets

\* Username and room id of a join-room event: both valid, or one or both of
\* them invalid.
JoinInputs ==
  LET valid(v) == Truthy(v) /\ Trim(v.chars) # <<>>
      good == CHOOSE u \in UsernameInputs : valid(u)
      lobby == CHOOSE r \in RoomInputs : valid(r)
  IN {<<u, r>> : u \in {x \in UsernameInputs : valid(x)},
                 r \in {x \in RoomInputs : valid(x)}}
     \cup {<<good, r>> : r \in RoomInputs}
     \cup {<<u, lobby>> : u \in UsernameInputs}
     \cup {<<Str(<<>>), Str(<<" ">>)>>}

\* The join-room events whose username and room id are both valid.
ValidJoinInputs ==
  {in \in JoinInputs : CleanUsername(in[1]) # <<>> /\ CleanRoom(in[2]) # <<>>}

\* The handlers of the other sessions, but "disconnect".
Handlers ==
  \/ \E s \in Active : Connect(s)
  \/ \E s \in Active : \E in \in JoinInputs : JoinRoom(s, in[1], in[2])
  \/ \E s \in Active : Typing(s)
  \/ \E s \in Active : StopTyping(s)
  \/ \E s \in Active : \E content \in ContentInputs : ChatMessage(s, content)
  \/ \E s \in Active : \E edit \in EditInputs : EditMessage(s, edit)
  \/ \E s \in Active : \E del \in DeleteInputs : DeleteMessage(s, del)

\* Clients that come back as new clients only: the handlers of the filler
\* sessions and those of the other sessions, each in its turn.
Next ==
  \/ FillerTurn /\ Connect(NextFiller)
  \/ FillerTurn /\ JoinRoom(NextFiller, FillerUsername(NextFiller), FillerRoom)
  \/ ActiveTurn /\ \E s \in Active : Connect(s)
  \/ ActiveTurn /\ \E s \in Active : \E in \in JoinInputs :
                     JoinRoom(s, in[1], in[2])
  \/ ActiveTurn /\ \E s \in Active : Typing(s)
  \/ ActiveTurn /\ \E s \in Active : StopTyping(s)
  \/ ActiveTurn /\ \E s \in Active : \E content \in ContentInputs :
                     ChatMessage(s, content)
  \/ ActiveTurn /\ \E s \in Active : \E edit \in EditInputs :
                     EditMessage(s, edit)
  \/ ActiveTurn /\ \E s \in Active : \E del \in DeleteInputs :
                     DeleteMessage(s, del)
  \/ ActiveTurn /\ \E s \in Active : Disconnect(s, FALSE)

Spec == Init /\ [][Next]_vars

\* Clients that may lose the connection and recover the session; no room is
\* brought up to capacity.
NextRecovery ==
  \/ Handlers
  \/ \E s \in Active : \E recoverable \in BOOLEAN : Disconnect(s, recoverable)
  \/ \E s \in Active : Recover(s)

SpecRecovery == Init /\ [][NextRecovery]_vars

\* Clients that send AI requests; no room is brought up to capacity.
NextAI ==
  \/ \E s \in Active : Connect(s)
  \/ \E s \in Active : \E in \in ValidJoinInputs : JoinRoom(s, in[1], in[2])
  \/ \E s \in Active : Typing(s)
  \/ \E s \in Active : \E content \in ContentInputs : ChatMessage(s, content)
  \/ \E s \in Active : Disconnect(s, FALSE)
  \/ \E s \in Active : \E messages \in MessagesInputs : AIRequest(s, messages)
  \/ \E q \in 1 .. MaxPending : AITimeout(q)
  \/ \E q \in 1 .. MaxPending : \E response \in ResponseInputs :
       AIResponse(q, response)

SpecAI == Init /\ [][NextAI]_vars

\* The timer of a request fires unless the acknowledgement clears it first.
SpecAIFair == SpecAI /\ WF_vars(\E q \in 1 .. MaxPending : AITimeout(q))

\* Clients that join, send well-formed AI requests, and may lose the connection
\* and recover the session; they all ask for the same username.
NextAIRecovery ==
  \/ \E s \in Active : Connect(s)
  \/ \E s \in Active : \E in \in ValidJoinInputs :
       CleanUsername(in[1]) = Bob /\ JoinRoom(s, in[1], in[2])
  \/ \E s \in Active : \E recoverable \in BOOLEAN : Disconnect(s, recoverable)
  \/ \E s \in Active : Recover(s)
  \/ \E s \in Active : \E messages \in MessagesInputs :
       ~PreparationThrows(messages) /\ AIRequest(s, messages)
  \/ \E q \in 1 .. MaxPending : AITimeout(q)
  \/ \E q \in 1 .. MaxPending : \E response \in ResponseInputs :
       AIResponse(q, response)

SpecAIRecovery == Init /\ [][NextAIRecovery]_vars

\* ------------------------------------------------------------ properties
\* The usernames of the member records of a room.
MemberNames(room) == {room.users[m].username : m \in DOMAIN room.users}

\* The rooms of registry rs that hold a member record of session s.
RoomsOf(rs, s) == {r \in DOMAIN rs : s \in DOMAIN rs[r].users}

\* The last event of a handler's output is event ev sent to socket s alone.
EndsWith(out, s, ev) ==
  /\ out # <<>>
  /\ out[Len(out)].ev = ev
  /\ out[Len(out)].via = "socket"
  /\ out[Len(out)].to = {s}

UsernameTakenText == "Username is taken in this room"

\* The handler's output ends with the username-taken error to socket s alone.
EndsTaken(out, s) ==
  EndsWith(out, s, "username error") /\ out[Len(out)].arg = UsernameTakenText

\* The handler's output holds the events of an accepted join of socket s.
Accepted(out, s) ==
  \E i \in 1 .. Len(out) : out[i].ev = "room set" /\ out[i].to = {s}

\* Event e is a join-room whose room id and username are both valid.
IsJoin(e) ==
  /\ e.op = "join room"
  /\ CleanRoom(e.args[2]) # <<>>
  /\ CleanUsername(e.args[1]) # <<>>

RelayOps ==
  {"chat message", "typing", "stop typing", "edit message", "delete message"}

\* C1: in every state, the username set of every room is exactly the set of
\* the username fields of the room's member records.
C1_UsernamesAreMemberNames ==
  \A r \in DOMAIN rooms : rooms[r].usernames = MemberNames(rooms[r])

\* C2: in every state, no two member records of one room carry the same
\* username.
C2_UsernameUniqueInRoom ==
  \A r \in DOMAIN rooms : \A m, n \in DOMAIN rooms[r].users :
    m # n => rooms[r].users[m].username # rooms[r].users[n].username

\* C3: a join-room for a room in which a member already holds the (normalized)
\* username ends with the username-taken error to the requester alone and
\* leaves the room's member map and username set as they were.  Stated for the
\* claim's plainest case: the member is another session, the requester is not
\* in the room, and the room is below capacity.
C3_TakenUsernameRejected ==
  [][ LET s == last'.sid
          r == CleanRoom(last'.args[2])
          u == CleanUsername(last'.args[1])
      IN ( /\ IsJoin(last')
           /\ r \in DOMAIN rooms
           /\ s \notin DOMAIN rooms[r].users
           /\ u \in MemberNames(rooms[r])
           /\ Cardinality(DOMAIN rooms[r].users) < MAX_USERS_PER_ROOM )
         => /\ EndsTaken(emitted', s)
            /\ r \in DOMAIN rooms'
            /\ rooms'[r] = rooms[r]
    ]_vars

\* C4: in every state, the member map of every room holds at most
\* MAX_USERS_PER_ROOM member records.
C4_AtMostCapacity ==
  \A r \in DOMAIN rooms :
    Cardinality(DOMAIN rooms[r].users) <= MAX_USERS_PER_ROOM

\* C4, witness: a join-room has just been turned down with "room full" by a
\* room that holds MAX_USERS_PER_ROOM members.
C4_Witness ==
  /\ IsJoin(last)
  /\ EndsWith(emitted, last.sid, "room full")
  /\ LET r == CleanRoom(last.args[2])
     IN r \in DOMAIN rooms
        /\ Cardinality(DOMAIN rooms[r].users) = MAX_USERS_PER_ROOM

\* C5: a join-room that targets a room holding MAX_USERS_PER_ROOM members ends
\* with "room full" to the requester alone and leaves the room's member map
\* and username set as they were.  Stated for the sessions that are not in the
\* target room (unjoined, or joined to another room).
C5_FullRoomRejects ==
  [][ LET s == last'.sid
          r == CleanRoom(last'.args[2])
      IN ( /\ IsJoin(last')
           /\ r \in DOMAIN rooms
           /\ s \notin DOMAIN rooms[r].users
           /\ Cardinality(DOMAIN rooms[r].users) = MAX_USERS_PER_ROOM )
         => /\ EndsWith(emitted', s, "room full")
            /\ r \in DOMAIN rooms'
            /\ rooms'[r] = rooms[r]
    ]_vars

\* C6: after every handler no room of the registry has an empty member map; a
\* room that appears in the registry was created by a join-room that admitted
\* its sender to it, and a room that disappears held the handler's socket as
\* its only member.
C6_NoEmptyRoom ==
  [][ /\ \A r \in DOMAIN rooms' : DOMAIN rooms'[r].users # {}
      /\ \A r \in DOMAIN rooms' \ DOMAIN rooms :
           /\ IsJoin(last')
           /\ r = CleanRoom(last'.args[2])
           /\ Accepted(emitted', last'.sid)
           /\ last'.sid \in DOMAIN rooms'[r].users
      /\ \A r \in DOMAIN rooms \ DOMAIN rooms' :
           DOMAIN rooms[r].users = {last'.sid}
    ]_vars

\* C6, witness: a "disconnect" handler has just deleted the room whose only
\* member was its socket.
C6_Witness ==
  /\ last.op = "disconnect"
  /\ \E r \in DOMAIN prev \ DOMAIN rooms : DOMAIN prev[r].users = {last.sid}

\* C7: the "disconnect" of the only member of a room deletes the room in that
\* handler; an accepted join-room for a room id that is not in the registry
\* yields a room whose member map holds the joining session alone and whose
\* username set holds that session's username alone.
C7_FreshRoomAfterRemoval ==
  [][ LET s == last'.sid
      IN /\ ( /\ last'.op = "disconnect"
              /\ Truthy(last'.data.roomId)
              /\ last'.data.roomId.chars \in DOMAIN rooms
              /\ DOMAIN rooms[last'.data.roomId.chars].users = {s} )
            => last'.data.roomId.chars \notin DOMAIN rooms'
         /\ ( /\ IsJoin(last')
              /\ Accepted(emitted', s)
              /\ CleanRoom(last'.args[2]) \notin DOMAIN rooms )
            => LET r == CleanRoom(last'.args[2])
                   u == CleanUsername(last'.args[1])
               IN /\ r \in DOMAIN rooms'
                  /\ DOMAIN rooms'[r].users = {s}
                  /\ rooms'[r].users[s] = [id |-> s, username |-> u]
                  /\ rooms'[r].usernames = {u}
    ]_vars

\* C7, witness: an accepted join-room has just created a room under an id that
\* was not in the registry, and the socket still recorded that id from the
\* time it was a member of the earlier room of that id.
C7_Witness ==
  /\ IsJoin(last)
  /\ Accepted(emitted, last.sid)
  /\ CleanRoom(last.args[2]) \notin DOMAIN prev
  /\ last.data.roomId = Str(CleanRoom(last.args[2]))

\* C8: a chat message with non-empty trimmed content from a member of room R is
\* sent exactly once, to exactly the sessions that are members of R, and carries
\* the sender's id and the username of the sender's member record in R.
C8_ChatReachesExactlyTheMembers ==
  [][ LET s == last'.sid
          content == last'.args[1]
      IN ( /\ last'.op = "chat message"
           /\ IsString(content)
           /\ Trim(content.chars) # <<>>
           /\ RoomsOf(rooms, s) # {} )
         => \E r \in RoomsOf(rooms, s) :
              /\ Len(emitted') = 1
              /\ emitted'[1].ev = "chat message"
              /\ emitted'[1].to = DOMAIN rooms[r].users
              /\ emitted'[1].arg.senderId = s
              /\ emitted'[1].arg.username = Str(rooms[r].users[s].username)
    ]_vars

\* C9: after a join-room of a session that was a member of a room is turned
\* down with "room full" or with the username-taken error, the session is a
\* member of no room and its socket records neither a room id nor a username.
C9_RejectedJoinClearsSession ==
  [][ LET s == last'.sid
      IN ( /\ IsJoin(last')
           /\ RoomsOf(rooms, s) # {}
           /\ EndsWith(emitted', s, "room full") \/ EndsTaken(emitted', s) )
         => /\ RoomsOf(rooms', s) = {}
            /\ sockets'[s].data = EmptyData
    ]_vars

\* C10: a relay event (chat message, typing, stop typing, edit message, delete
\* message) of a session that is a member of no room reaches no session.
C10_UnjoinedRelayIsDropped ==
  [][ ( /\ last'.op \in RelayOps
        /\ RoomsOf(rooms, last'.sid) = {} )
      => \A i \in 1 .. Len(emitted') : emitted'[i].to = {}
    ]_vars

\* A value that is not a string, or a string of white space only.
Blank(v) ==
  ~IsString(v) \/ \A i \in 1 .. Len(v.chars) : IsWhitespace(v.chars[i])

\* C11: a join-room whose room id or username is not a string or is blank
\* leaves the registry and every socket (data and transport rooms) as they
\* were and sends exactly one event, to the requester alone: "room error" when
\* the room id is invalid (the username being invalid or not), "username
\* error" otherwise.
C11_InvalidJoinChangesNothing ==
  [][ LET s == last'.sid
          username == last'.args[1]
          roomId == last'.args[2]
      IN ( /\ last'.op = "join room"
           /\ Blank(roomId) \/ Blank(username) )
         => /\ rooms' = rooms
            /\ sockets' = sockets
            /\ Len(emitted') = 1
            /\ emitted'[1].via = "socket"
            /\ emitted'[1].to = {s}
            /\ emitted'[1].ev =
                 IF Blank(roomId) THEN "room error" ELSE "username error"
    ]_vars

\* C11, witnesses: a member of a room has just sent a join-room whose room id
\* and username are both invalid, and is still a member.
C11_Witness ==
  /\ last.op = "join room"
  /\ Blank(last.args[1])
  /\ Blank(last.args[2])
  /\ RoomsOf(rooms, last.sid) # {}
  /\ emitted[1].ev = "room error"

\* C12: a join-room with valid inputs from a member of room a for another room
\* b takes the session's member record and username out of a; when a keeps
\* members, the handler's first three events are the broadcasts to a (the count
\* of the members that remain, "user left" with the session's username, the
\* usernames that remain) and every event about b comes after them; when a
\* keeps none, a is deleted and nothing is broadcast to it.  After every
\* handler each session has a member record in at most one room.
C12_LeavesBeforeAdmitted ==
  [][ /\ \A s \in Sessions : Cardinality(RoomsOf(rooms', s)) <= 1
      /\ LET s == last'.sid
             b == CleanRoom(last'.args[2])
         IN \A a \in RoomsOf(rooms, s) :
              (IsJoin(last') /\ a # b) =>
                LET name == rooms[a].users[s].username
                    rest == DOMAIN rooms[a].users \ {s}
                IN IF rest = {}
                   THEN /\ a \notin DOMAIN rooms'
                        /\ \A i \in 1 .. Len(emitted') : emitted'[i].room # a
                   ELSE /\ a \in DOMAIN rooms'
                        /\ rooms'[a].users = [m \in rest |-> rooms[a].users[m]]
                        /\ rooms'[a].usernames = rooms[a].usernames \ {name}
                        /\ Len(emitted') >= 3
                        /\ \A i \in 1 .. Len(emitted') :
                             (emitted'[i].room = a) <=> (i <= 3)
                        /\ emitted'[1].ev = "user count"
                        /\ emitted'[1].arg = Cardinality(rest)
                        /\ emitted'[2].ev = "user left"
                        /\ emitted'[2].arg = Str(name)
                        /\ emitted'[3].ev = "room users"
                        /\ emitted'[3].arg = rooms'[a].usernames
    ]_vars

\* C12, witness: a member of a room that keeps another member has just been
\* admitted to a different room.
C12_Witness ==
  /\ IsJoin(last)
  /\ Accepted(emitted, last.sid)
  /\ \E a \in RoomsOf(prev, last.sid) :
       /\ a # CleanRoom(last.args[2])
       /\ a \in DOMAIN rooms
       /\ emitted[2].ev = "user left"
       /\ emitted[2].room = a

\* C13: when the timer of an AI request fires before the responder has
\* acknowledged, that callback sends exactly one "AI_error", to the requester
\* alone, and exactly one "stop typing" of "AI" to the room of the request;
\* and whatever the responder acknowledges afterwards, the request sends
\* nothing more (no second error, no second "stop typing", no chat message).
C13_TimedOutRequest ==
  [][ LET q == last'.args[1]
      IN /\ ( /\ last'.op = "AI timeout"
              /\ q \in DOMAIN pending )
            => /\ Len(emitted') = 2
               /\ emitted'[1].ev = "AI_error"
               /\ emitted'[1].via = "socket"
               /\ emitted'[1].to \subseteq {last'.sid}
               /\ emitted'[2].ev = "stop typing"
               /\ emitted'[2].arg = AI
               /\ emitted'[2].room = pending[q].roomId
         /\ ( /\ last'.op = "AI response"
              /\ q \in DOMAIN pending
              /\ pending[q].timer = "fired" )
            => emitted' = <<>>
    ]_vars

\* The room ids that the join-room inputs lead to.
RoomIds == {CleanRoom(r) : r \in RoomInputs} \ {<<>>}

\* The handler that ran last broadcast event ev of "AI" to room r.
AINotice(ev, r) ==
  \E i \in 1 .. Len(emitted) :
    /\ emitted[i].ev = ev
    /\ emitted[i].via = "room"
    /\ emitted[i].room = r
    /\ emitted[i].arg = AI

\* C14, first part: every "typing" of "AI" broadcast to a room is followed, in
\* the same handler or later, by a "stop typing" of "AI" broadcast to that room.
C14_TypingIsCleared ==
  \A r \in RoomIds : AINotice("typing", r) ~> AINotice("stop typing", r)

\* C14, second part: an AI request of a session that is a member of no room
\* sends nothing.
C14_UnjoinedRequestIsSilent ==
  [][ ( /\ last'.op = "AI request"
        /\ RoomsOf(rooms, last'.sid) = {} )
      => emitted' = <<>>
    ]_vars

\* C14: both parts.
C14_TypingAlwaysCleared == C14_TypingIsCleared /\ C14_UnjoinedRequestIsSilent

\* C15: after a join-room with valid inputs that leaves its sender a member of
\* the target room, the socket records the room id and the username, and the
\* handler's last five events are, in this order: "username set" and "room
\* set" to the sender alone, then "user count" with the size of the room's
\* member map, "user joined" with the new username and "room users" with the
\* room's username set (the new username in it), these three delivered to
\* exactly the members of the room, the sender among them.
C15_AcceptedJoinEvents ==
  [][ LET s == last'.sid
          r == CleanRoom(last'.args[2])
          u == CleanUsername(last'.args[1])
          n == Len(emitted')
      IN ( /\ IsJoin(last')
           /\ r \in DOMAIN rooms'
           /\ s \in DOMAIN rooms'[r].users )
         => /\ sockets'[s].data = [roomId |-> Str(r), username |-> Str(u)]
            /\ n >= 5
            /\ emitted'[n - 4].ev = "username set"
            /\ emitted'[n - 4].arg = Str(u)
            /\ emitted'[n - 3].ev = "room set"
            /\ emitted'[n - 3].arg = Str(r)
            /\ \A i \in {n - 4, n - 3} :
                 emitted'[i].via = "socket" /\ emitted'[i].to = {s}
            /\ emitted'[n - 2].ev = "user count"
            /\ emitted'[n - 2].arg = Cardinality(DOMAIN rooms'[r].users)
            /\ emitted'[n - 1].ev = "user joined"
            /\ emitted'[n - 1].arg = Str(u)
            /\ emitted'[n].ev = "room users"
            /\ emitted'[n].arg = rooms'[r].usernames
            /\ u \in rooms'[r].usernames
            /\ \A i \in {n - 2, n - 1, n} :
                 /\ emitted'[i].room = r
                 /\ emitted'[i].to = DOMAIN rooms'[r].users
    ]_vars

\* C16: when a member of room a leaves it, by a join-room with valid inputs
\* for another room or by "disconnect", and a keeps members, the handler
\* sends to a exactly "user count" with the number of the members that
\* remain, "user left" with the leaver's username and "room users" with the
\* usernames of the members that remain, each delivered to exactly the members
\* that remain; when a keeps no member, the handler sends nothing to a.
C16_LeaveBroadcasts ==
  [][ LET s == last'.sid
      IN \A a \in RoomsOf(rooms, s) :
           ( \/ last'.op = "disconnect"
             \/ IsJoin(last') /\ a # CleanRoom(last'.args[2]) )
           => LET rest == DOMAIN rooms[a].users \ {s}
                  name == rooms[a].users[s].username
                  out == SelectSeq(emitted', LAMBDA e : e.room = a)
              IN IF rest = {}
                 THEN out = <<>>
                 ELSE /\ Len(out) = 3
                      /\ out[1].ev = "user count"
                      /\ out[1].arg = Cardinality(rest)
                      /\ out[2].ev = "user left"
                      /\ out[2].arg = Str(name)
                      /\ out[3].ev = "room users"
                      /\ out[3].arg = {rooms[a].users[m].username : m \in rest}
                      /\ \A i \in 1 .. 3 : out[i].to = rest
    ]_vars

\* cs without its leading and trailing white space: the stretch from its first
\* to its last character that is not white space.
Stripped(cs) ==
  LET solid == {k \in 1 .. Len(cs) : ~IsWhitespace(cs[k])}
      first == CHOOSE k \in solid : \A j \in solid : k <= j
      final == CHOOSE k \in solid : \A j \in solid : j <= k
  IN IF solid = {} THEN <<>> ELSE SubSeq(cs, first, final)

\* The first UsernameMaxLength characters of w.
Prefix(w) ==
  SubSeq(w, 1, IF Len(w) < UsernameMaxLength THEN Len(w) ELSE UsernameMaxLength)

AIOps == {"AI request", "AI timeout", "AI response"}

\* The members of room r, none when the registry has no room r.
MembersOf(rs, r) == IF r \in DOMAIN rs THEN DOMAIN rs[r].users ELSE {}

\* C18: while an AI request is pending, every connected session can have its
\* join-room, relay and disconnect events handled; a request is registered
\* under the room id its socket records at that moment; the reply is broadcast
\* as one chat message of sender "AI" to that room id, delivered to exactly
\* the sessions that are members of that room when it arrives; every
\* "AI_error" goes to the requester alone; and no step of the AI path changes
\* the registry or any socket.
C18_OthersAreHandled ==
  pending # EmptyMap =>
    \A s \in DOMAIN sockets :
      /\ \A in \in ValidJoinInputs :
           CleanUsername(in[1]) = Bob => ENABLED JoinRoom(s, in[1], in[2])
      /\ ENABLED Typing(s)
      /\ ENABLED ChatMessage(s, Str(<<"h", "i", " ">>))
      /\ ENABLED Disconnect(s, FALSE)

C18_AIPathEffects ==
  [][ /\ last'.op \in AIOps => rooms' = rooms /\ sockets' = sockets
      /\ last'.op \in AIOps =>
           \A i \in 1 .. Len(emitted') :
             emitted'[i].ev = "AI_error" =>
               emitted'[i].via = "socket" /\ emitted'[i].to \subseteq {last'.sid}
      /\ \A q \in DOMAIN pending' \ DOMAIN pending :
           /\ last'.op = "AI request"
           /\ pending'[q].sid = last'.sid
           /\ Str(pending'[q].roomId) = last'.data.roomId
      /\ ( /\ last'.op = "AI response"
           /\ HasReply(last'.args[2]) )
         => LET q == last'.args[1]
            IN /\ q \in DOMAIN pending
               /\ emitted'[1].ev = "chat message"
               /\ emitted'[1].room = pending[q].roomId
               /\ emitted'[1].to = MembersOf(rooms, pending[q].roomId)
               /\ emitted'[1].arg.senderId = AI
               /\ emitted'[1].arg.username = AI
               /\ emitted'[1].arg.content = last'.args[2].reply
               /\ \A i \in 2 .. Len(emitted') : emitted'[i].ev # "chat message"
    ]_vars

\* C18: both parts, in every state and at every step.
C18_AIPathIsConcurrent == []C18_OthersAreHandled /\ C18_AIPathEffects

\* The transport group of room id r: the connected sessions that a broadcast
\* addressed to r reaches.
Group(socks, r) == {t \in DOMAIN socks : r \in socks[t].rooms}

\* The room ids that the registry or a transport group knows.
KnownRoomIds(socks, rs) ==
  DOMAIN rs \cup UNION {socks[t].rooms : t \in DOMAIN socks}

\* C19: after every handler the transport group of every room id is the key
\* set of that room's member map, and is empty when the registry has no such
\* room; a session enters a transport group only in its own join-room that
\* admits it to that room, and is out of the group once its member record is
\* removed.
C19_GroupIsMemberKeys ==
  [][ \A r \in KnownRoomIds(sockets, rooms) \cup KnownRoomIds(sockets', rooms') :
        /\ Group(sockets', r) = MembersOf(rooms', r)
        /\ \A s \in Group(sockets', r) \ Group(sockets, r) :
             /\ IsJoin(last')
             /\ last'.sid = s
             /\ CleanRoom(last'.args[2]) = r
             /\ s \in MembersOf(rooms', r)
        /\ \A s \in MembersOf(rooms, r) \ MembersOf(rooms', r) :
             s \notin Group(sockets', r)
    ]_vars

\* The events of a leave.
LeaveEvents == {"user count", "user left", "room users"}

\* C20: every "user left" sent to a room names the username of the member record
\* of the handler's own session, which is a member of that room when the
\* handler starts; a join-room or "disconnect" of a session that is not a
\* member of room r leaves r in the registry with every username of its
\* username set, sends no "user left" to r and, unless it is a join-room for r,
\* no "user count" and no "room users" to r either.
C20_OnlyMembersLeave ==
  [][ LET s == last'.sid
      IN /\ \A i \in 1 .. Len(emitted') :
              emitted'[i].ev = "user left" =>
                /\ s \in MembersOf(rooms, emitted'[i].room)
                /\ emitted'[i].arg =
                     Str(rooms[emitted'[i].room].users[s].username)
         /\ last'.op \in {"join room", "disconnect"} =>
              \A r \in DOMAIN rooms :
                s \notin MembersOf(rooms, r) =>
                  /\ r \in DOMAIN rooms'
                  /\ rooms[r].usernames \subseteq rooms'[r].usernames
                  /\ \A i \in 1 .. Len(emitted') :
                       emitted'[i].room = r =>
                         /\ emitted'[i].ev # "user left"
                         /\ emitted'[i].ev \in LeaveEvents =>
                              /\ IsJoin(last')
                              /\ CleanRoom(last'.args[2]) = r
    ]_vars

====
